---- MODULE Spec2Model ----
\* TSA Item Checker API (src/main.py): POST /check-item, GET /history, GET /.
\* The two remote collaborators (the chat-completion endpoint and the
\* tsa_checks table) are the environment: every outcome they can produce is a
\* nondeterministic choice.  A request is split at its two remote calls, so
\* that requests interleave where the handler waits on the network.
EXTENDS Integers, Sequences, FiniteSets, TLC

\* ------------------------------------------------------------------ bounds
MaxRequests == 3

Reqs == 1..MaxRequests

\* ------------------------------------------------------- request payloads
\* ItemRequest.item_name: any string, the empty one included.
ItemNames == {"Laptop", ""}

\* ----------------------------------------------------------- JSON decoding
\* A model text is a sequence of lexical tokens.  String literals are written
\* with single quotes here; 'k' stands for the JSON text "k".
KEY_CARRY_ON == "'carry_on'"
KEY_CHECKED_BAG == "'checked_bag'"
KEY_DESCRIPTION == "'description'"

StrLits == {KEY_CARRY_ON, KEY_CHECKED_BAG, KEY_DESCRIPTION, "'x'"}
BoolLits == {"true", "false"}
NumLits == {"5"}
\* json.loads accepts the literal NaN (parse_constant) and yields a float.
Scalars == StrLits \cup BoolLits \cup NumLits \cup {"null", "NaN"}

ScalarKind(t) ==
    IF t \in StrLits THEN "str"
    ELSE IF t \in BoolLits THEN "bool"
    ELSE IF t = "null" THEN "none"
    ELSE "number"

DecodeError == [kind |-> "JSONDecodeError", tok |-> "", items |-> {}, elems |-> <<>>]

PyScalar(t) == [kind |-> ScalarKind(t), tok |-> t, items |-> {}, elems |-> <<>>]
PyDict(pairs) == [kind |-> "dict", tok |-> "", items |-> pairs, elems |-> <<>>]
PyList(es) == [kind |-> "list", tok |-> "", items |-> {}, elems |-> es]

\* Members of an object, from the key at position i; a repeated key keeps
\* the last value, as a Python dict does.
RECURSIVE ParseMembers(_, _, _)
ParseMembers(toks, i, acc) ==
    IF i + 3 > Len(toks) THEN DecodeError
    ELSE IF toks[i] \notin StrLits \/ toks[i + 1] # ":" \/ toks[i + 2] \notin Scalars
    THEN DecodeError
    ELSE LET acc2 == {p \in acc : p[1] # toks[i]} \cup {<<toks[i], toks[i + 2]>>}
         IN  IF toks[i + 3] = "}"
             THEN (IF i + 3 = Len(toks) THEN PyDict(acc2) ELSE DecodeError)
             ELSE IF toks[i + 3] = ","
             THEN ParseMembers(toks, i + 4, acc2)
             ELSE DecodeError

\* Elements of an array, from the element at position i.
RECURSIVE ParseElements(_, _, _)
ParseElements(toks, i, acc) ==
    IF i + 1 > Len(toks) THEN DecodeError
    ELSE IF toks[i] \notin Scalars THEN DecodeError
    ELSE LET acc2 == Append(acc, toks[i])
         IN  IF toks[i + 1] = "]"
             THEN (IF i + 1 = Len(toks) THEN PyList(acc2) ELSE DecodeError)
             ELSE IF toks[i + 1] = ","
             THEN ParseElements(toks, i + 2, acc2)
             ELSE DecodeError

\* json.loads on a str: the decoded Python value, or DecodeError.
json_loads(toks) ==
    IF Len(toks) = 0 THEN DecodeError
    ELSE IF toks[1] \in Scalars
    THEN (IF Len(toks) = 1 THEN PyScalar(toks[1]) ELSE DecodeError)
    ELSE IF toks[1] = "{"
    THEN (IF Len(toks) >= 2 /\ toks[2] = "}"
          THEN (IF Len(toks) = 2 THEN PyDict({}) ELSE DecodeError)
          ELSE ParseMembers(toks, 2, {}))
    ELSE IF toks[1] = "["
    THEN (IF Len(toks) >= 2 /\ toks[2] = "]"
          THEN (IF Len(toks) = 2 THEN PyList(<<>>) ELSE DecodeError)
          ELSE ParseElements(toks, 2, <<>>))
    ELSE DecodeError

\* data[key]: the value under key, present only for a dict that has the key
\* (KeyError otherwise, TypeError for a value that is no dict).
HasKey(d, key) == d.kind = "dict" /\ \E p \in d.items : p[1] = key
GetItem(d, key) == (CHOOSE p \in d.items : p[1] = key)[2]

\* ------------------------------------------------- inference completions
\* The message contents the model can return (max_tokens may cut one short).
TXT_LAPTOP ==
    <<"{", KEY_CARRY_ON, ":", "true", ",", KEY_CHECKED_BAG, ":", "true", ",",
      KEY_DESCRIPTION, ":", "'x'", "}">>
TXT_BAD_TYPE ==
    <<"{", KEY_CARRY_ON, ":", "true", ",", KEY_CHECKED_BAG, ":", "false", ",",
      KEY_DESCRIPTION, ":", "5", "}">>
TXT_MISSING_FIELD == <<"{", KEY_CARRY_ON, ":", "true", "}">>
TXT_LIST == <<"[", "true", "]">>
TXT_NUMBER == <<"5">>
TXT_NAN == <<"NaN">>
TXT_PROSE == <<"sure", ",", "here's", "your", "answer">>
TXT_TRUNCATED == <<"{", KEY_CARRY_ON, ":", "true", ",">>
TXT_EMPTY == <<>>

Texts ==
    {TXT_LAPTOP, TXT_BAD_TYPE, TXT_MISSING_FIELD, TXT_LIST,
     TXT_NUMBER, TXT_NAN, TXT_PROSE, TXT_TRUNCATED, TXT_EMPTY}

\* What client.chat.completions.create can do: raise, or return a completion
\* with or without choices, whose message content is a str or None.
InferenceErrors == {"Connection error.", "Error code: 401"}

Raised(m) == [raised |-> TRUE, msg |-> m, nchoices |-> 0, hasContent |-> FALSE, content |-> <<>>]
NoChoices == [raised |-> FALSE, msg |-> "", nchoices |-> 0, hasContent |-> FALSE, content |-> <<>>]
NoneContent == [raised |-> FALSE, msg |-> "", nchoices |-> 1, hasContent |-> FALSE, content |-> <<>>]
Content(t) == [raised |-> FALSE, msg |-> "", nchoices |-> 1, hasContent |-> TRUE, content |-> t]
NoCompletion == [raised |-> FALSE, msg |-> "", nchoices |-> 0, hasContent |-> FALSE, content |-> <<"-">>]

InferenceFailures == {Raised(m) : m \in InferenceErrors}
InferenceOutcomes ==
    InferenceFailures \cup {NoChoices, NoneContent} \cup {Content(t) : t \in Texts}

\* ------------------------------------------------------------ HTTP replies
\* A reply is a status, a detail string (failures) and a JSON body, the body
\* being a set of <<key, value>> pairs.
MALFORMED_DETAIL == "Error: The AI model returned a malformed response."
GENERIC_PREFIX == "An unexpected error occurred: "
INDEX_ERROR == "list index out of range"
TYPE_ERROR == "the JSON object must be str, bytes or bytearray, not NoneType"
SERVER_ERROR == "Internal Server Error"
WELCOME == "Welcome to the TSA Item Checker API. Go to /docs for more info."
HISTORY_PREFIX == "Failed to fetch history: "

HTTPException(code, text) == [status |-> code, detail |-> text, body |-> {}, history |-> <<>>]
NoResponse == [status |-> 0, detail |-> "", body |-> {}, history |-> <<>>]

\* Variant: no except clause for json.JSONDecodeError, so the decode failure
\* lands in "except Exception".
MalformedAsGeneric == HTTPException(500, GENERIC_PREFIX \o "Expecting value")

\* except json.JSONDecodeError
MalformedResponse == HTTPException(500, MALFORMED_DETAIL)
\* except Exception as e
GenericFailure(m) == HTTPException(500, GENERIC_PREFIX \o m)

\* TSAResponse as pydantic validates it.  A bool field takes a bool (and the
\* ints 0 and 1 and strings such as "yes", none of them among the tokens
\* here); a str field takes only a str.
BoolLax(t) == t \in BoolLits
StrStrict(t) == t \in StrLits

Validates(d) ==
    /\ HasKey(d, KEY_CARRY_ON) /\ HasKey(d, KEY_CHECKED_BAG) /\ HasKey(d, KEY_DESCRIPTION)
    /\ BoolLax(GetItem(d, KEY_CARRY_ON))
    /\ BoolLax(GetItem(d, KEY_CHECKED_BAG))
    /\ StrStrict(GetItem(d, KEY_DESCRIPTION))

\* "return data" under response_model=TSAResponse: the validated, filtered
\* body, or the framework's own 500 when the value does not validate.
ReturnData(d) ==
    IF Validates(d)
    THEN [status |-> 200, detail |-> "",
          body |-> {<<KEY_CARRY_ON, GetItem(d, KEY_CARRY_ON)>>,
                    <<KEY_CHECKED_BAG, GetItem(d, KEY_CHECKED_BAG)>>,
                    <<KEY_DESCRIPTION, GetItem(d, KEY_DESCRIPTION)>>},
          history |-> <<>>]
    ELSE HTTPException(500, SERVER_ERROR)

\* ------------------------------------------------------------------ state
VARIABLES
    pc,         \* per request: "idle", "inference", "insert", "closed"
    item_name,  \* per request: request.item_name
    completion, \* per request: what the inference call returned
    data,       \* per request: the handler's local "data"
    calls,      \* per request in flight: remote calls made so far
    store,      \* the tsa_checks table, rows in insertion order
    clock,      \* the persistence backend's latest created_at (it only grows)
    offline,    \* the host cannot reach the external services now
    returned,   \* number of check_item requests answered with a classification
    last        \* the latest HTTP reply sent, and what the request did

vars == <<pc, item_name, completion, data, calls, store, clock, offline, returned, last>>

NoData == [kind |-> "unset", tok |-> "", items |-> {}, elems |-> <<>>]
NoCalls == [inference |-> 0, insert |-> 0]
DbErrors == {"db error"}

Event(o, r, c, resp, ins, svc) ==
    [op |-> o, req |-> r, item |-> IF r = 0 THEN "" ELSE item_name[r],
     completion |-> c, insert |-> ins, response |-> resp, called |-> svc,
     calls |-> IF r = 0 THEN NoCalls ELSE calls[r]]

Quiet == [op |-> "none", req |-> 0, item |-> "", completion |-> NoCompletion,
          insert |-> "none", response |-> NoResponse, called |-> {}, calls |-> NoCalls]

Init ==
    /\ pc = [r \in Reqs |-> "idle"]
    /\ item_name = [r \in Reqs |-> ""]
    /\ completion = [r \in Reqs |-> NoCompletion]
    /\ data = [r \in Reqs |-> NoData]
    /\ calls = [r \in Reqs |-> NoCalls]
    /\ store = <<>>
    /\ clock = 0
    /\ offline = FALSE
    /\ returned = 0
    /\ last = Quiet

\* ------------------------------------------------------------- check_item
\* Lines 93-106 on the completion c: the reply of the except clause that
\* fires, or NoResponse with the decoded data.
Decode(c) ==
    IF c.raised THEN [response |-> GenericFailure(c.msg), data |-> NoData]
    ELSE IF c.nchoices = 0 THEN [response |-> GenericFailure(INDEX_ERROR), data |-> NoData]
    ELSE IF ~c.hasContent THEN [response |-> GenericFailure(TYPE_ERROR), data |-> NoData]
    ELSE IF json_loads(c.content) = DecodeError
    THEN [response |-> MalformedResponse, data |-> NoData]
    ELSE [response |-> NoResponse, data |-> json_loads(c.content)]

\* The dict handed to insert() can be built: no KeyError, no TypeError.
CanBuildRow(d) ==
    HasKey(d, KEY_CARRY_ON) /\ HasKey(d, KEY_CHECKED_BAG) /\ HasKey(d, KEY_DESCRIPTION)

\* Variant: the item name is kept in a module-level variable that every
\* arriving request overwrites, so a row carries the latest arrival's name.
BuildRowSharedItem(r, ts) ==
    LET latest == CHOOSE q \in Reqs :
                    pc[q] # "idle" /\ \A u \in Reqs : u > q => pc[u] = "idle"
    IN  [item_name |-> item_name[latest],
         carry_on |-> GetItem(data[r], KEY_CARRY_ON),
         checked_bag |-> GetItem(data[r], KEY_CHECKED_BAG),
         description |-> GetItem(data[r], KEY_DESCRIPTION),
         created_at |-> ts]

\* The row of request r; created_at is assigned by the backend.
BuildRow(r, ts) ==
    [item_name |-> item_name[r],
     carry_on |-> GetItem(data[r], KEY_CARRY_ON),
     checked_bag |-> GetItem(data[r], KEY_CHECKED_BAG),
     description |-> GetItem(data[r], KEY_DESCRIPTION),
     created_at |-> ts]

\* Variant: upsert on item_name, replacing an earlier row of the same item.
DbUpsert(rows, row) ==
    IF \E i \in 1..Len(rows) : rows[i].item_name = row.item_name
    THEN [i \in 1..Len(rows) |->
            IF rows[i].item_name = row.item_name THEN row ELSE rows[i]]
    ELSE Append(rows, row)

\* Variant: execute() is called twice on the same insert.
DbInsertTwice(rows, row) == Append(Append(rows, row), row)

\* insert(...).execute() succeeding on the table.
DbInsert(rows, row) == Append(rows, row)

\* Variant: no inner try, so the insert error reaches "except Exception".
OnInsertErrorPropagates(r, msg) == GenericFailure(msg)

\* except Exception as supabase_error: print, pass, then "return data".
OnInsertError(r, msg) == ReturnData(data[r])

\* The reply leaves; the request's locals are gone.
Close(r, c, resp, ins, svc) ==
    /\ pc' = [pc EXCEPT ![r] = "closed"]
    /\ last' = Event("check_item", r, c, resp, ins, svc)
    /\ returned' = IF resp.status = 200 THEN returned + 1 ELSE returned
    /\ item_name' = [item_name EXCEPT ![r] = ""]
    /\ completion' = [completion EXCEPT ![r] = NoCompletion]
    /\ data' = [data EXCEPT ![r] = NoData]
    /\ calls' = [calls EXCEPT ![r] = NoCalls]

\* The r-th POST /check-item arrives and the inference call is sent (line 93).
check_item_call(r) ==
    /\ pc[r] = "idle"
    /\ \A q \in Reqs : q < r => pc[q] # "idle"
    /\ \E item \in ItemNames : item_name' = [item_name EXCEPT ![r] = item]
    /\ pc' = [pc EXCEPT ![r] = "inference"]
    /\ calls' = [calls EXCEPT ![r].inference = @ + 1]
    /\ last' = Quiet
    /\ UNCHANGED <<completion, data, store, clock, offline, returned>>

\* Lines 103-125 once the inference call has ended with c: the reply of an
\* except clause; or the insert is sent (lines 110-115); or, the row not
\* being buildable, the KeyError or TypeError is absorbed and data returned.
AfterInference(r, c) ==
    IF Decode(c).response # NoResponse
    THEN /\ Close(r, c, Decode(c).response, "none", {"inference"})
         /\ UNCHANGED <<store, clock, offline>>
    ELSE IF CanBuildRow(Decode(c).data)
    THEN /\ pc' = [pc EXCEPT ![r] = "insert"]
         /\ completion' = [completion EXCEPT ![r] = c]
         /\ data' = [data EXCEPT ![r] = Decode(c).data]
         /\ calls' = [calls EXCEPT ![r].insert = @ + 1]
         /\ last' = Quiet
         /\ UNCHANGED <<item_name, store, clock, offline, returned>>
    ELSE /\ Close(r, c, ReturnData(Decode(c).data), "none", {"inference"})
         /\ UNCHANGED <<store, clock, offline>>

\* Variant: a raised inference call is sent once more before giving up.
inference_returns_retry(r) ==
    /\ pc[r] = "inference"
    /\ \E c \in InferenceOutcomes :
        /\ offline => c \in InferenceFailures
        /\ IF c.raised /\ calls[r].inference < 2
           THEN /\ calls' = [calls EXCEPT ![r].inference = @ + 1]
                /\ last' = Quiet
                /\ UNCHANGED <<pc, item_name, completion, data, store, clock,
                               offline, returned>>
           ELSE AfterInference(r, c)

\* The inference call of request r ends with some outcome c (line 93).
inference_returns(r) ==
    /\ pc[r] = "inference"
    /\ \E c \in InferenceOutcomes :
        /\ offline => c \in InferenceFailures
        /\ AfterInference(r, c)

\* The insert ends: the row is stored with the backend's timestamp, or the
\* call raises; lines 117-125 either way.
insert_returns(r) ==
    /\ pc[r] = "insert"
    /\ \/ /\ ~offline
          /\ store' = DbInsert(store, BuildRow(r, clock + 1))
          /\ clock' = clock + 1
          /\ Close(r, completion[r], ReturnData(data[r]), "ok", {"db"})
          /\ UNCHANGED offline
       \/ /\ \E msg \in DbErrors :
                Close(r, completion[r], OnInsertError(r, msg), "raised", {"db"})
          /\ UNCHANGED <<store, clock, offline>>

\* ---------------------------------------------------------------- history
\* select("*").order("created_at", desc=True): every way the backend may
\* order the rows, rows with equal created_at in any order.
Ascending(h) == \A i \in 1..(Len(h) - 1) : h[i].created_at <= h[i + 1].created_at

Descending(h) == \A i \in 1..(Len(h) - 1) : h[i].created_at >= h[i + 1].created_at

\* Variant: order("created_at") without desc=True.
SelectOrderAsc(rows) ==
    LET n == Len(rows)
        perms == {p \in [1..n -> 1..n] : \A i, j \in 1..n : i # j => p[i] # p[j]}
    IN  {h \in {[i \in 1..n |-> rows[p[i]]] : p \in perms} : Ascending(h)}

SelectOrderDesc(rows) ==
    LET n == Len(rows)
        perms == {p \in [1..n -> 1..n] : \A i, j \in 1..n : i # j => p[i] # p[j]}
    IN  {h \in {[i \in 1..n |-> rows[p[i]]] : p \in perms} : Descending(h)}

get_history ==
    /\ \/ /\ ~offline
          /\ \E h \in SelectOrderDesc(store) :
                last' = Event("get_history", 0, NoCompletion,
                              [status |-> 200, detail |-> "", body |-> {}, history |-> h],
                              "none", {"db"})
       \/ \E msg \in DbErrors :
            last' = Event("get_history", 0, NoCompletion,
                          HTTPException(500, HISTORY_PREFIX \o msg), "none", {"db"})
    /\ UNCHANGED <<pc, item_name, completion, data, calls, store, clock, offline, returned>>

\* ------------------------------------------------------------------- root
\* Variant: the root endpoint pings the table before it answers.
read_root_ping ==
    /\ last' = Event("read_root", 0, NoCompletion,
                     IF offline
                     THEN HTTPException(500, SERVER_ERROR)
                     ELSE [status |-> 200, detail |-> "",
                           body |-> {<<"'message'", WELCOME>>}, history |-> <<>>],
                     "none", {"db"})
    /\ UNCHANGED <<pc, item_name, completion, data, calls, store, clock, offline, returned>>

read_root ==
    /\ last' = Event("read_root", 0, NoCompletion,
                     [status |-> 200, detail |-> "", body |-> {<<"'message'", WELCOME>>},
                      history |-> <<>>],
                     "none", {})
    /\ UNCHANGED <<pc, item_name, completion, data, calls, store, clock, offline, returned>>

\* ------------------------------------------------------------ environment
\* The external services become unreachable, or reachable again.  (A call
\* can also fail while they are reachable: each call picks its own outcome.)
outage ==
    /\ offline' = ~offline
    /\ UNCHANGED <<pc, item_name, completion, data, calls, store, clock, returned, last>>

Next ==
    \/ \E r \in Reqs : check_item_call(r)
    \/ \E r \in Reqs : inference_returns(r)
    \/ \E r \in Reqs : insert_returns(r)
    \/ get_history
    \/ read_root
    \/ outage

Spec == Init /\ [][Next]_vars

\* ================================================================ claims
\* Shapes of a check_item reply, stated on the reply alone.
ThreeKeys == {KEY_CARRY_ON, KEY_CHECKED_BAG, KEY_DESCRIPTION}
ErrorTexts == InferenceErrors \cup DbErrors \cup {INDEX_ERROR, TYPE_ERROR}

IsClassificationReply(resp) ==
    /\ resp.status = 200
    /\ Cardinality(resp.body) = 3
    /\ {p[1] : p \in resp.body} = ThreeKeys
    /\ \A p \in resp.body :
          IF p[1] = KEY_DESCRIPTION THEN p[2] \in StrLits ELSE p[2] \in {"true", "false"}
IsMalformedReply(resp) ==
    /\ resp.status = 500
    /\ resp.detail = "Error: The AI model returned a malformed response."
    /\ resp.body = {}
IsGenericReply(resp) ==
    /\ resp.status = 500
    /\ \E m \in ErrorTexts : resp.detail = "An unexpected error occurred: " \o m
    /\ resp.body = {}

\* The texts of Texts that json.loads rejects, listed by hand.  (TXT_NAN is
\* not one of them: json.loads accepts the literal NaN.)
InvalidJsonTexts == {TXT_PROSE, TXT_TRUNCATED, TXT_EMPTY}
\* The texts of Texts that are an object with the three typed fields.
ClassificationTexts == {TXT_LAPTOP}

Answered == last.op = "check_item"
GotText(t) == ~last.completion.raised /\ last.completion.nchoices = 1
              /\ last.completion.hasContent /\ last.completion.content = t
GotInvalidJson == \E t \in InvalidJsonTexts : GotText(t)
GotClassification == \E t \in ClassificationTexts : GotText(t)
InFlight(r) == pc[r] \in {"inference", "insert"}

\* C1: every POST /check-item ends in exactly one of three ways: a reply with
\* exactly the three typed fields, the fixed malformed-response 500, or the
\* generic "An unexpected error occurred" 500.
C1_OneOfThreeOutcomes ==
    Answered =>
        \/ IsClassificationReply(last.response)
        \/ IsMalformedReply(last.response)
        \/ IsGenericReply(last.response)

\* C2: when the model text is a classification and the insert raises, the
\* request still returns that classification with status 200.
C2_InsertErrorAbsorbed ==
    (Answered /\ GotClassification /\ last.insert = "raised") =>
        /\ IsClassificationReply(last.response)
        /\ last.response.body =
              {<<KEY_CARRY_ON, "true">>, <<KEY_CHECKED_BAG, "true">>, <<KEY_DESCRIPTION, "'x'">>}
C2_Witness ==
    /\ Answered /\ GotClassification /\ last.insert = "raised"
    /\ last.response.status = 200 /\ last.item = "Laptop"

C5_HistoryDescending ==
    (last.op = "get_history" /\ last.response.status = 200) =>
        LET h == last.response.history
            n == Len(store)
        IN  /\ Len(h) = n
            /\ \E p \in [1..n -> 1..n] :
                  /\ \A i, j \in 1..n : i # j => p[i] # p[j]
                  /\ \A i \in 1..n : h[i] = store[p[i]]
            /\ \A i, j \in 1..n : i < j => h[i].created_at >= h[j].created_at
            /\ \A i \in 1..n : h[i] = store[n + 1 - i]
C5_Witness ==
    /\ last.op = "get_history" /\ last.response.status = 200
    /\ Len(last.response.history) = 3
    /\ last.response.history[1].created_at > last.response.history[2].created_at
    /\ last.response.history[2].created_at > last.response.history[3].created_at
    /\ last.response.history[1] # last.response.history[3]

\* C6: a failed check_item request whose failure is neither a JSON decode
\* failure nor an absorbed insert failure gets the generic 500 carrying the
\* underlying message, never the malformed-response 500.
C6_OtherFailuresGeneric ==
    (Answered /\ last.response.status # 200 /\ ~GotInvalidJson /\ last.insert # "raised") =>
        /\ IsGenericReply(last.response)
        /\ ~IsMalformedReply(last.response)

\* C7: a stored record never changes and never disappears, and GET /history
\* and GET / leave the table as it is.
C7_RecordsImmutable ==
    [][/\ Len(store') >= Len(store)
       /\ \A i \in 1..Len(store) : store'[i] = store[i]
       /\ last'.op \in {"get_history", "read_root"} => store' = store
      ]_vars
C7_Witness ==
    /\ Len(store) = 3
    /\ store[1].item_name = store[3].item_name
    /\ last.op = "get_history"

\* C8: GET / can always be served, and its reply is the fixed welcome message
\* with no call to either external service, also while they are unreachable.
C8_RootAlwaysWelcome ==
    /\ ENABLED read_root
    /\ last.op = "read_root" =>
          /\ last.response.status = 200
          /\ last.response.body =
                {<<"'message'", "Welcome to the TSA Item Checker API. Go to /docs for more info.">>}
          /\ last.called = {}
C8_Witness ==
    /\ last.op = "read_root" /\ offline
    /\ \E r \in Reqs : pc[r] = "insert"

\* C9: a request makes the inference call exactly once, attempts the insert
\* at most once and only after the text has decoded; when the call raises or
\* the text does not decode, no insert is attempted.
C9_CallsInOrderNoRetry ==
    /\ \A r \in Reqs :
          /\ pc[r] = "inference" => calls[r] = [inference |-> 1, insert |-> 0]
          /\ pc[r] = "insert" =>
                /\ calls[r] = [inference |-> 1, insert |-> 1]
                /\ completion[r].hasContent
                /\ completion[r].content \notin InvalidJsonTexts
    /\ Answered =>
          /\ last.calls.inference = 1
          /\ last.calls.insert <= 1
          /\ (last.calls.insert = 0) <=> (last.insert = "none")
          /\ last.calls.insert = 1 =>
                /\ ~last.completion.raised /\ last.completion.hasContent
                /\ last.completion.content \notin InvalidJsonTexts
          /\ (last.completion.raised \/ GotInvalidJson) =>
                (last.calls.insert = 0 /\ last.response.status = 500)
C9_Witness ==
    /\ Answered /\ last.insert = "raised"
    /\ last.calls = [inference |-> 1, insert |-> 1]

\* C10: under any interleaving, the reply of a request and the record it
\* inserts come from its own item_name and its own inference output alone,
\* whatever happens to the requests around it.
C10_RequestsIndependent ==
    /\ \A r \in Reqs :
          pc[r] = "insert" =>
              /\ completion[r].hasContent
              /\ data[r].kind = "dict"
              /\ \A k \in ThreeKeys :
                    \E i \in 1..Len(completion[r].content) - 2 :
                        /\ completion[r].content[i] = k
                        /\ <<k, completion[r].content[i + 2]>> \in data[r].items
    /\ Answered =>
          /\ (last.response.status = 200) <=> GotClassification
          /\ GotText(TXT_LAPTOP) =>
                last.response.body =
                    {<<KEY_CARRY_ON, "true">>, <<KEY_CHECKED_BAG, "true">>,
                     <<KEY_DESCRIPTION, "'x'">>}
          /\ (last.insert = "ok" /\ GotText(TXT_LAPTOP)) =>
                store[Len(store)] =
                    [item_name |-> last.item, carry_on |-> "true", checked_bag |-> "true",
                     description |-> "'x'", created_at |-> clock]
          /\ (last.insert = "ok" /\ GotText(TXT_BAD_TYPE)) =>
                store[Len(store)] =
                    [item_name |-> last.item, carry_on |-> "true", checked_bag |-> "false",
                     description |-> "5", created_at |-> clock]
          /\ last.insert = "ok" => (GotText(TXT_LAPTOP) \/ GotText(TXT_BAD_TYPE))
C10_Witness ==
    /\ Answered /\ last.req = 2 /\ last.insert = "ok"
    /\ last.item = "" /\ GotText(TXT_LAPTOP)
    /\ pc[1] = "insert" /\ item_name[1] = "Laptop" /\ completion[1] = Content(TXT_BAD_TYPE)
    /\ pc[3] = "closed"

====
